---- MODULE Spec2Model ----
(***************************************************************************)
(* Location lifecycle coordinator (LocationsService) with its two          *)
(* collaborators, the geocoding client (MapboxService) and the object      *)
(* store (MinioService).                                                   *)
(*                                                                         *)
(* Strings that the code splits on "/" (image URLs, file paths) are        *)
(* sequences of path segments: the string is the segments joined by "/".   *)
(* "" is <<"">> (one empty segment); null/undefined is <<>>.               *)
(* Addresses are sequences of characters, " " being whitespace.            *)
(* Every await of the coordinator is one action; two requests may be in    *)
(* flight at once and interleave at their awaits.                          *)
(***************************************************************************)
EXTENDS Integers, Sequences, FiniteSets, TLC

VARIABLES
    cfg,        \* ConfigService: MINIO_ENDPOINT, MINIO_PORT, MINIO_USE_SSL
    records,    \* prisma.location: id -> persisted Location
    store,      \* MinIO objects: set of <<bucketName, fileName>>
    nextId,     \* next identity the persistence layer hands out
    nextKey,    \* next randomUUID() value
    ops,        \* number of requests accepted so far
    pc,         \* per request slot: the await it is suspended at
    loc,        \* per request slot: the locals of the running method
    buckets,    \* MinIO buckets: name -> whether it exists and its policy
    direct      \* the last service method called on its own: name, arguments, outcome

vars == <<cfg, records, store, nextId, nextKey, ops, pc, loc, buckets, direct>>

\* -------------------------------------------------------------- bounds
\* Requests accepted in one run (each uploads at most one blob and creates
\* at most one record, so it also bounds keys and identities).
MaxOps == 3

\* Requests accepted in one run when they are served one at a time.
MaxSeqOps == 2

\* putObject calls made in one run of the object store on its own.
MaxUploads == 2

\* Length of the addresses handed to the geocoding client on its own.
MaxAddressLen == 2

\* Two request slots: requests may overlap pairwise.
Procs == {1, 2}

\* A request is served in the lowest free slot.
Free(p) == pc[p] = "idle" /\ \A q \in Procs : q < p => pc[q] # "idle"

\* ------------------------------------------------------------- strings
Absent == <<>>          \* null / undefined
Empty == <<"">>         \* the empty string ''

\* JS truthiness of a string-or-null value.
Truthy(s) == s # Absent /\ s # Empty

\* BucketType.LOCATIONS
LOCATIONS == "locations"

\* Object.values(BucketType)
BucketTypes == {LOCATIONS}

\* imageUrl.includes('/locations/'): a whole segment "locations" with a "/"
\* on each side, i.e. neither the first nor the last segment.
IncludesBucket(s) == \E i \in 2..(Len(s) - 1) : s[i] = LOCATIONS

\* imageUrl.startsWith('locations/')
StartsWithBucket(s) == Len(s) >= 2 /\ s[1] = LOCATIONS

\* LocationsService.isMinioPath
isMinioPath(imageUrl) ==
    IF ~Truthy(imageUrl) THEN FALSE
    ELSE IncludesBucket(imageUrl) \/ StartsWithBucket(imageUrl)

\* Index of the first "/locations/" in s (s includes one).
FirstBucketAt(s) ==
    CHOOSE i \in 2..(Len(s) - 1) :
        s[i] = LOCATIONS /\ \A j \in 2..(i - 1) : s[j] # LOCATIONS

\* imageUrl.split('/locations/')[1]: from after the first separator to the
\* next separator that does not overlap it, or to the end.
SplitPart1(s) ==
    LET i == FirstBucketAt(s)
        nexts == {j \in (i + 2)..(Len(s) - 1) : s[j] = LOCATIONS}
        stop == IF nexts = {} THEN Len(s) + 1
                ELSE CHOOSE j \in nexts : \A k \in nexts : j <= k
    IN  SubSeq(s, i + 1, stop - 1)

\* LocationsService.extractMinioPath
extractMinioPath(imageUrl) ==
    IF IncludesBucket(imageUrl) THEN <<LOCATIONS>> \o SplitPart1(imageUrl)
    ELSE imageUrl

\* MinioService.extractBucketAndFileName; fileName keeps its segments
\* (parts.slice(1).join('/')). <<>> stands for null.
NullPath == [bucketName |-> "", fileName |-> Absent]

\* path.extname(file.originalname): the extensions an uploaded file's name
\* can end in. The original name is the client's; it may end in a blank
\* ("photo.jpg "), and then so does its extension.
Extensions == {"", ".jpg", ".pdf"}

PaddedExtensions == {e \o " " : e \in Extensions \ {""}}

\* `${randomUUID()}${fileExtension}`: the n-th UUID drawn.
UuidName(n, ext) == "u" \o ToString(n) \o ext

\* The file names that end in no blank.
UnpaddedNames == {UuidName(n, e) : n \in 1..(MaxOps + MaxUploads), e \in Extensions}

\* The end of filePath.trim(): a final segment that is a file name followed
\* by a blank loses the blank. (No path handled here starts with a blank.)
TrimEnd(seg) ==
    IF \E t \in UnpaddedNames : seg = t \o " "
    THEN CHOOSE t \in UnpaddedNames : seg = t \o " "
    ELSE seg

\* filePath.trim().split('/')
TrimPath(s) == [s EXCEPT ![Len(s)] = TrimEnd(@)]

extractBucketAndFileName(filePath) ==
    IF ~Truthy(filePath) THEN NullPath
    ELSE LET parts == TrimPath(filePath)
         IN  IF Len(parts) < 2 THEN NullPath
             ELSE IF parts[1] \notin BucketTypes THEN NullPath
             ELSE [bucketName |-> parts[1], fileName |-> Tail(parts)]

\* The object a "bucket/fileName" path names.
ObjectOf(path) == <<path[1], Tail(path)>>

\* !bucketName || !fileName
InvalidPath(bf) == bf.bucketName = "" \/ ~Truthy(bf.fileName)

\* MinioService.getFileUrl
getFileUrl(filePath) ==
    IF ~Truthy(filePath) THEN Empty
    ELSE LET bf == extractBucketAndFileName(filePath)
             protocol == IF cfg.useSSL THEN "https" ELSE "http"
             portSuffix ==
                 IF (cfg.useSSL /\ cfg.port = "443") \/ (~cfg.useSSL /\ cfg.port = "80")
                 THEN "" ELSE ":" \o cfg.port
         IN  IF InvalidPath(bf) THEN Empty
             ELSE <<protocol \o ":", "", cfg.endpoint \o portSuffix, bf.bucketName>>
                  \o bf.fileName

\* Store endpoint configurations the process may be started with.
Configs ==
    { [endpoint |-> "localhost", port |-> "9000", useSSL |-> FALSE],
      [endpoint |-> "cdn.example.com", port |-> "443", useSSL |-> TRUE],
      [endpoint |-> "minio", port |-> "80", useSSL |-> FALSE],
      [endpoint |-> "locations", port |-> "9000", useSSL |-> FALSE],
      [endpoint |-> "locations", port |-> "80", useSSL |-> FALSE] }

\* The endpoint the constructor falls back to: localhost, port 9000, no SSL.
DefaultConfig == [endpoint |-> "localhost", port |-> "9000", useSSL |-> FALSE]

\* ------------------------------------------------------ geocoding client
\* address.trim(): strip whitespace characters from both ends.
RECURSIVE TrimLeft(_)
TrimLeft(a) == IF a # <<>> /\ Head(a) = " " THEN TrimLeft(Tail(a)) ELSE a

RECURSIVE TrimRight(_)
TrimRight(a) ==
    IF a # <<>> /\ a[Len(a)] = " " THEN TrimRight(SubSeq(a, 1, Len(a) - 1)) ELSE a

Trim(a) == TrimRight(TrimLeft(a))

\* An address argument: undefined (present = FALSE) or a string of characters.
NoAddress == [present |-> FALSE, text |-> <<>>]

\* JS truthiness of an address: defined and not ''.
AddressTruthy(address) == address.present /\ address.text # <<>>

\* What the Mapbox forwardGeocode request can come back with: a body with a
\* features list (each feature's center is <<longitude, latitude>>), a body
\* without features, or a rejected request.
UpstreamResponses ==
    { [kind |-> "features", features |-> <<>>],
      [kind |-> "features", features |-> << <<11, 21>> >>],
      [kind |-> "features", features |-> << <<12, 22>> >>],
      [kind |-> "nofeatures", features |-> <<>>],
      [kind |-> "error", features |-> <<>>] }

\* The exception class geocodeAddress throws for each failure: 'Address
\* cannot be empty' and 'Address not found: ...' are BadRequestExceptions,
\* 'Geocoding service failed: ...' is an InternalServerErrorException.
GeocodeException(tag) ==
    IF tag = "UpstreamUnavailable" THEN "InternalServerErrorException"
    ELSE "BadRequestException"

\* sent: the forwardGeocode request went out.
GeocodeFail(tag, sent) ==
    [ok |-> FALSE, err |-> tag, exception |-> GeocodeException(tag), sent |-> sent,
     latitude |-> 0, longitude |-> 0]

\* A geocodeAddress whose catch block wraps every error, its own 'Address
\* not found' included.
geocodeAddress_WrapsEveryError(address, upstream) ==
    IF ~AddressTruthy(address) \/ Len(Trim(address.text)) = 0
    THEN GeocodeFail("InvalidInput", FALSE)
    ELSE IF upstream.kind = "error" \/ upstream.kind = "nofeatures"
            \/ Len(upstream.features) = 0
    THEN GeocodeFail("UpstreamUnavailable", TRUE)
    ELSE [ok |-> TRUE, err |-> "", exception |-> "", sent |-> TRUE,
          latitude |-> upstream.features[1][2],
          longitude |-> upstream.features[1][1]]

\* MapboxService.geocodeAddress
geocodeAddress(address, upstream) ==
    IF ~AddressTruthy(address) \/ Len(Trim(address.text)) = 0
    THEN GeocodeFail("InvalidInput", FALSE)
    ELSE IF upstream.kind = "error" THEN GeocodeFail("UpstreamUnavailable", TRUE)
    ELSE IF upstream.kind = "nofeatures" \/ Len(upstream.features) = 0
    THEN GeocodeFail("AddressNotFound", TRUE)
    ELSE [ok |-> TRUE, err |-> "", exception |-> "", sent |-> TRUE,
          latitude |-> upstream.features[1][2],
          longitude |-> upstream.features[1][1]]

\* ----------------------------------------------------------- object store
\* An Express.Multer.File, or none.
NoFile == [present |-> FALSE, size |-> 0, mimetype |-> "", ext |-> ""]

\* validateFile: const maxSize = 12 * 1024 * 1024
maxSize == 12 * 1024 * 1024

\* An allow-list without the image/jpg alias.
allowedTypes_NoJpgAlias ==
    {"image/jpeg", "image/png", "image/gif", "image/webp", "image/svg+xml"}

allowedTypes ==
    {"image/jpeg", "image/jpg", "image/png", "image/gif", "image/webp", "image/svg+xml"}

\* A validateFile that rejects a file of exactly maxSize bytes.
validateFile_InclusiveLimit(file) ==
    IF file.size >= maxSize THEN "TooLarge"
    ELSE IF file.size = 0 THEN "Empty"
    ELSE IF file.mimetype \notin allowedTypes THEN "UnsupportedType"
    ELSE ""

\* MinioService.validateFile: "" when the file passes, else the rejection.
validateFile(file) ==
    IF file.size > maxSize THEN "TooLarge"
    ELSE IF file.size = 0 THEN "Empty"
    ELSE IF file.mimetype \notin allowedTypes THEN "UnsupportedType"
    ELSE ""

\* An uploadFile that validates the file after it has put it.
uploadFile_PutBeforeValidate(file, bucketType, n, putErr) ==
    LET why == IF ~file.present THEN "NoFile" ELSE validateFile(file)
        fileName == UuidName(n, file.ext)
    IN  IF ~file.present
        THEN [ok |-> FALSE, cause |-> why, path |-> Absent, put |-> {}, sent |-> FALSE]
        ELSE IF putErr
        THEN [ok |-> FALSE, cause |-> "StoreError", path |-> Absent, put |-> {}, sent |-> TRUE]
        ELSE IF why # ""
        THEN [ok |-> FALSE, cause |-> why, path |-> Absent,
              put |-> {<<bucketType, <<fileName>> >>}, sent |-> TRUE]
        ELSE [ok |-> TRUE, cause |-> "", path |-> <<bucketType, fileName>>,
              put |-> {<<bucketType, <<fileName>> >>}, sent |-> TRUE]

\* MinioService.uploadFile: validate, putObject, return "bucket/fileName".
\* putErr: the store rejects the putObject call. Every failure is rethrown
\* as BadRequestException('Erro no upload: ...'). sent: putObject was called;
\* put: the objects it wrote.
uploadFile(file, bucketType, n, putErr) ==
    LET why == IF ~file.present THEN "NoFile" ELSE validateFile(file)
        fileName == UuidName(n, file.ext)
    IN  IF why # ""
        THEN [ok |-> FALSE, cause |-> why, path |-> Absent, put |-> {}, sent |-> FALSE]
        ELSE IF putErr
        THEN [ok |-> FALSE, cause |-> "StoreError", path |-> Absent, put |-> {}, sent |-> TRUE]
        ELSE [ok |-> TRUE, cause |-> "", path |-> <<bucketType, fileName>>,
              put |-> {<<bucketType, <<fileName>> >>}, sent |-> TRUE]

\* MinioService.fileExists: statObject, any error reads as "does not exist".
fileExists(bucketName, fileName, objects, statErr) ==
    IF statErr THEN FALSE ELSE <<bucketName, fileName>> \in objects

\* Faults the store can raise inside one deleteFile call.
DeleteFaults == {"none", "stat", "remove"}

\* A deleteFile that treats a missing object as an error.
deleteFile_MissingIsError(filePath, objects, fault) ==
    LET bf == extractBucketAndFileName(filePath)
    IN  IF ~Truthy(filePath) \/ InvalidPath(bf)
        THEN [ok |-> FALSE, objects |-> objects]
        ELSE IF fault # "none" \/ <<bf.bucketName, bf.fileName>> \notin objects
        THEN [ok |-> FALSE, objects |-> objects]
        ELSE [ok |-> TRUE, objects |-> objects \ {<<bf.bucketName, bf.fileName>>}]

\* MinioService.deleteFile on the objects `objects`: ok = it returned without
\* throwing; objects = the store afterwards.
deleteFile(filePath, objects, fault) ==
    LET bf == extractBucketAndFileName(filePath)
    IN  IF ~Truthy(filePath) \/ InvalidPath(bf)
        THEN [ok |-> FALSE, objects |-> objects]
        ELSE IF ~fileExists(bf.bucketName, bf.fileName, objects, fault = "stat")
        THEN [ok |-> TRUE, objects |-> objects]
        ELSE IF fault = "remove" THEN [ok |-> FALSE, objects |-> objects]
        ELSE [ok |-> TRUE, objects |-> objects \ {<<bf.bucketName, bf.fileName>>}]

\* The policy document initializeBucket attaches: anonymous GetObject on
\* every object of the bucket.
PublicReadPolicy(bucketName) ==
    [Effect |-> "Allow", Principal |-> "*", Action |-> "s3:GetObject",
     Resource |-> "arn:aws:s3:::" \o bucketName \o "/*"]

\* A bucket without a policy document.
NoPolicy == [Effect |-> "", Principal |-> "", Action |-> "", Resource |-> ""]

\* What the store can hold for a bucket name when the process starts: no
\* bucket, a bucket without a policy, a bucket with the public-read policy.
BucketStates(bucketName) ==
    { [exists |-> FALSE, policy |-> NoPolicy],
      [exists |-> TRUE, policy |-> NoPolicy],
      [exists |-> TRUE, policy |-> PublicReadPolicy(bucketName)] }

\* The store call of initializeBucket that fails, if any.
InitFaults == {"none", "bucketExists", "makeBucket", "setBucketPolicy"}

\* initializeBucket's else branch: `this.logger.log('Bucket ... já existe')`,
\* no store call.
ExistingBucket(bucketName, bk, fault) == bk

\* MinioService.initializeBucket on the bucket state bk: the state it leaves.
\* Every error is caught and logged; nothing is thrown.
initializeBucket(bucketName, bk, fault) ==
    IF fault = "bucketExists" THEN bk
    ELSE IF bk.exists THEN ExistingBucket(bucketName, bk, fault)
    ELSE IF fault = "makeBucket" THEN bk
    ELSE IF fault = "setBucketPolicy" THEN [exists |-> TRUE, policy |-> NoPolicy]
    ELSE [exists |-> TRUE, policy |-> PublicReadPolicy(bucketName)]

\* The store call that fails while initializeBucket runs on the bucket state
\* bk: bucketExists is always made, makeBucket and setBucketPolicy only for a
\* bucket that does not exist yet.
InitFaultMet(bk, fault) ==
    IF fault = "bucketExists" THEN fault
    ELSE IF bk.exists THEN "none"
    ELSE fault

\* An initializeBucket whose catch block throws the error on.
initializeBucketOutcome_Rethrows(bucketName, bk, fault) ==
    [threw |-> InitFaultMet(bk, fault) # "none", logged |-> InitFaultMet(bk, fault) # "none"]

\* How initializeBucket ends: the whole body is in one try block whose catch
\* logs the error and a warning and returns. threw = the promise rejected;
\* logged = the catch block ran.
initializeBucketOutcome(bucketName, bk, fault) ==
    [threw |-> FALSE, logged |-> InitFaultMet(bk, fault) # "none"]

\* How onModuleInit ends: `await this.initializeBuckets()` rejects when one
\* `await this.initializeBucket(bucketName)` of the loop does.
onModuleInit(bks, fault) ==
    [threw |-> \E b \in BucketTypes : initializeBucketOutcome(b, bks[b], fault).threw,
     logged |-> {b \in BucketTypes : initializeBucketOutcome(b, bks[b], fault).logged}]

\* MinioService.initializeBuckets, the one store call named by fault failing
\* for every bucket it is made for.
initializeBuckets(bks, fault) ==
    [b \in BucketTypes |-> initializeBucket(b, bks[b], fault)]

\* ------------------------------------------------------------ coordinator
\* Files a request may carry: none, a valid image, a rejected type, an empty file.
Files ==
    { NoFile,
      [present |-> TRUE, size |-> 2048, mimetype |-> "image/jpeg", ext |-> ".jpg"],
      [present |-> TRUE, size |-> 2048, mimetype |-> "application/pdf", ext |-> ".pdf"] }

\* Addresses a request may carry.
Addresses ==
    { [present |-> TRUE, text |-> <<>>],
      [present |-> TRUE, text |-> <<" ">>],
      [present |-> TRUE, text |-> <<"R", "1">>] }

\* rest without a name key
NoName == ""

\* External image URLs a caller may put in the DTO's image field: one that
\* has nothing to do with the store, one whose path contains /locations/.
ExternalUrls ==
    { <<"https:", "", "img.example.com", "a.jpg">>,
      <<"https:", "", "img.example.com", "locations", "a.jpg">> }

\* Any string is accepted in the DTO's image field, the public URL of an
\* image already shown by some Location included.
PublishedUrls == {records[i].image : i \in {j \in DOMAIN records : Truthy(records[j].image)}}

CallerUrls == ExternalUrls \cup PublishedUrls

KeepImageValues == {"true", "false", "absent"}

\* The locals of a request slot before a method runs in it.
NoRecord == [name |-> "", latitude |-> 0, longitude |-> 0, image |-> Absent]

NoDto == [address |-> NoAddress, name |-> NoName, image |-> Absent, keepImage |-> "absent"]

NoCoords == [set |-> FALSE, latitude |-> 0, longitude |-> 0]

IdleLocals ==
    [ op |-> "none", id |-> 0, dto |-> NoDto, file |-> NoFile,
      existing |-> NoRecord, coordinates |-> NoCoords,
      imageUrl |-> Absent, uploadedFilePath |-> Absent, oldImagePath |-> Absent,
      error |-> "", calls |-> <<>>, result |-> "" ]

\* One entry of a request's call log: the collaborator call it made, whether
\* it returned (ok) and the store error it ran into on the way, if any.
FaultyCall(name, arg, ok, fault) == [call |-> name, arg |-> arg, ok |-> ok, fault |-> fault]

Call(name, arg, ok) == FaultyCall(name, arg, ok, "none")

EmptyRecords == [i \in {} |-> NoRecord]

\* No service method has been called on its own.
NoDirect == [op |-> "none", arg |-> Absent, fault |-> "none", out |-> Absent, before |-> {}]

Init ==
    /\ cfg = DefaultConfig
    /\ records = EmptyRecords
    /\ store = {}
    /\ nextId = 1
    /\ nextKey = 1
    /\ ops = 0
    /\ pc = [p \in Procs |-> "idle"]
    /\ loc = [p \in Procs |-> IdleLocals]
    /\ buckets = initializeBuckets([b \in BucketTypes |-> [exists |-> FALSE, policy |-> NoPolicy]], "none")
    /\ direct = NoDirect

\* A method returns or throws: the slot shows the outcome until it is reused.
Finish(l, outcome) == [l EXCEPT !.result = outcome]

Logged(l, name, arg, ok) == [l EXCEPT !.calls = Append(@, Call(name, arg, ok))]

\* The store error one deleteFile call runs into: statObject's (which
\* fileExists swallows), or removeObject's when the call gets that far.
DeleteFaultMet(filePath, objects, fault) ==
    LET bf == extractBucketAndFileName(filePath)
    IN  IF ~Truthy(filePath) \/ InvalidPath(bf) THEN "none"
        ELSE IF fault = "stat" THEN "stat"
        ELSE IF fault = "remove" /\ <<bf.bucketName, bf.fileName>> \in objects THEN "remove"
        ELSE "none"

\* The request's log after `deleteFile(filePath)` gave d on the store `objects`.
LoggedDelete(l, filePath, objects, fault, d) ==
    [l EXCEPT !.calls = Append(@, FaultyCall("delete", filePath, d.ok,
                                             DeleteFaultMet(filePath, objects, fault)))]

\* A rollback whose delete error replaces the error that was caught.
RollbackOutcome_Masks(original, deleteOk) == IF deleteOk THEN original ELSE "DeleteFailed"

\* `.catch(err => console.error(...))` on the rollback delete, then
\* `throw error`: the method rethrows what it caught, whatever the delete did.
RollbackOutcome(original, deleteOk) == original

\* A delete of the previous image whose error reaches the enclosing try.
CleanupOutcome_Propagates(deleteOk) == IF deleteOk THEN "ok" ELSE "DeleteFailed"

\* `.catch(err => console.error(...))` on the delete of the previous image:
\* nothing is thrown into the enclosing try, whatever the delete did.
CleanupOutcome(deleteOk) == "ok"

\* A catch block that deletes the previous image instead of the new upload.
RollbackTarget_Old(l) == l.oldImagePath

\* The file the catch block deletes: `deleteFile(uploadedFilePath)`.
RollbackTarget(l) == l.uploadedFilePath

\* A remove() that fails when the image delete fails.
RemoveOutcome_Propagates(deleteOk) == IF deleteOk THEN "ok" ELSE "DeleteFailed"

\* remove(): `.catch(err => console.error(...))` on the image delete, then
\* `return { message: 'Location deleted successfully' }`.
RemoveOutcome(deleteOk) == "ok"

\* A create() that carries on after a rejected geocoding call.
GeocodeRejected_Swallowed(g) == FALSE

\* `await geocodeAddress(address)` in create() is outside the try block: a
\* rejection leaves create() at once.
GeocodeRejected(g) == ~g.ok

\* A catch block that rethrows without rolling the upload back.
Caught_NoRollback(p, l, err) ==
    /\ pc' = [pc EXCEPT ![p] = "done"]
    /\ loc' = [loc EXCEPT ![p] = Finish(l, err)]

\* A catch block that calls deleteFile whether or not a file was uploaded.
Caught_AlwaysRollback(p, l, err) ==
    /\ pc' = [pc EXCEPT ![p] = IF l.op = "create" THEN "c_rollback" ELSE "u_rollback"]
    /\ loc' = [loc EXCEPT ![p] = [l EXCEPT !.error = err]]

\* The catch block of create/update: roll the upload back if there is one,
\* then rethrow.
Caught(p, l, err) ==
    IF Truthy(l.uploadedFilePath)
    THEN /\ pc' = [pc EXCEPT ![p] = IF l.op = "create" THEN "c_rollback" ELSE "u_rollback"]
         /\ loc' = [loc EXCEPT ![p] = [l EXCEPT !.error = err]]
    ELSE /\ pc' = [pc EXCEPT ![p] = "done"]
         /\ loc' = [loc EXCEPT ![p] = Finish(l, err)]

\* A findOne() that hands back whatever findUnique returned, null included.
findOne_NoNullCheck(id) ==
    [found |-> TRUE, location |-> IF id \in DOMAIN records THEN records[id] ELSE NoRecord]

\* findOne(): `findUnique({where: {id}})`, then
\* `if (!location) throw new NotFoundException('Location not found')`.
findOne(id) ==
    IF id \in DOMAIN records THEN [found |-> TRUE, location |-> records[id]]
    ELSE [found |-> FALSE, location |-> NoRecord]

\* ---- create
\* create(), up to and including `await geocodeAddress(address)`, which is
\* outside the try block.
CreateGeocode(p, dto, file, upstream) ==
    /\ Free(p) /\ ops < MaxOps
    /\ LET g == geocodeAddress(dto.address, upstream)
           l0 == [IdleLocals EXCEPT !.op = "create", !.dto = dto, !.file = file,
                                    !.imageUrl = dto.image]
           l1 == Logged(l0, "geocode", Absent, g.ok)
       IN  IF GeocodeRejected(g)
           THEN /\ pc' = [pc EXCEPT ![p] = "done"]
                /\ loc' = [loc EXCEPT ![p] = Finish(l1, g.err)]
           ELSE /\ pc' = [pc EXCEPT ![p] = IF file.present THEN "c_upload" ELSE "c_persist"]
                /\ loc' = [loc EXCEPT ![p] =
                              [l1 EXCEPT !.coordinates =
                                  [set |-> TRUE, latitude |-> g.latitude,
                                   longitude |-> g.longitude]]]
    /\ ops' = ops + 1
    /\ UNCHANGED <<cfg, buckets, direct, records, store, nextId, nextKey>>

\* `await this.minioService.uploadFile(imageFile, BucketType.LOCATIONS)`
CreateUpload(p, putErr) ==
    /\ pc[p] = "c_upload"
    /\ LET l == loc[p]
           u == uploadFile(l.file, LOCATIONS, nextKey, putErr)
           l1 == Logged(l, "upload", u.path, u.ok)
       IN  IF u.ok
           THEN /\ store' = store \cup u.put
                /\ nextKey' = nextKey + 1
                /\ pc' = [pc EXCEPT ![p] = "c_persist"]
                /\ loc' = [loc EXCEPT ![p] =
                              [l1 EXCEPT !.uploadedFilePath = u.path,
                                         !.imageUrl = getFileUrl(u.path)]]
           ELSE /\ UNCHANGED <<store, nextKey>>
                /\ Caught(p, l1, "UploadFailed")
    /\ UNCHANGED <<cfg, buckets, direct, records, nextId, ops>>

\* `await this.prisma.location.create({data: {...}})`
CreatePersist(p, dbErr) ==
    /\ pc[p] = "c_persist"
    /\ LET l == loc[p]
           l1 == Logged(l, "persist", l.imageUrl, ~dbErr)
       IN  IF dbErr
           THEN /\ UNCHANGED <<records, nextId>>
                /\ Caught(p, l1, "PersistFailed")
           ELSE /\ records' = records @@ (nextId :>
                                  [name |-> l.dto.name,
                                   latitude |-> l.coordinates.latitude,
                                   longitude |-> l.coordinates.longitude,
                                   image |-> l.imageUrl])
                /\ nextId' = nextId + 1
                /\ pc' = [pc EXCEPT ![p] = "done"]
                /\ loc' = [loc EXCEPT ![p] = Finish([l1 EXCEPT !.id = nextId], "ok")]
    /\ UNCHANGED <<cfg, buckets, direct, store, nextKey, ops>>

\* catch: `await this.minioService.deleteFile(uploadedFilePath).catch(...)`,
\* then `throw error`
CreateRollback(p, fault) ==
    /\ pc[p] = "c_rollback"
    /\ LET l == loc[p]
           d == deleteFile(RollbackTarget(l), store, fault)
           l1 == LoggedDelete(l, RollbackTarget(l), store, fault, d)
       IN  /\ store' = d.objects
           /\ pc' = [pc EXCEPT ![p] = "done"]
           /\ loc' = [loc EXCEPT ![p] = Finish(l1, RollbackOutcome(l.error, d.ok))]
    /\ UNCHANGED <<cfg, buckets, direct, records, nextId, nextKey, ops>>

\* ---- update
\* An update() that clears the image field and forgets the blob behind it.
ResolveWithoutFile_KeepsBlob(l) ==
    IF l.dto.keepImage = "false" /\ Truthy(l.existing.image)
    THEN [l EXCEPT !.imageUrl = Empty]
    ELSE l

\* The synchronous image decision of update() when no file came with the
\* request: `else if (keepImage === false && existingLocation.image)`.
ResolveWithoutFile(l) ==
    IF l.dto.keepImage = "false" /\ Truthy(l.existing.image)
    THEN [l EXCEPT !.imageUrl = Empty,
                   !.oldImagePath = IF isMinioPath(l.existing.image)
                                    THEN extractMinioPath(l.existing.image)
                                    ELSE Absent]
    ELSE l

\* update() after the geocoding block: the upload await if a file came,
\* otherwise straight to the prisma update.
AfterGeocode(p, l) ==
    IF l.file.present
    THEN /\ pc' = [pc EXCEPT ![p] = "u_upload"]
         /\ loc' = [loc EXCEPT ![p] = l]
    ELSE /\ pc' = [pc EXCEPT ![p] = "u_persist"]
         /\ loc' = [loc EXCEPT ![p] = ResolveWithoutFile(l)]

\* update(), up to and including `await this.findOne(id)`
UpdateFind(p, id, dto, file) ==
    /\ Free(p) /\ ops < MaxOps
    /\ LET existingLocation == findOne(id)
           l0 == [IdleLocals EXCEPT !.op = "update", !.id = id, !.dto = dto, !.file = file]
           l1 == Logged(l0, "find", Absent, id \in DOMAIN records)
       IN  IF ~existingLocation.found
           THEN /\ pc' = [pc EXCEPT ![p] = "done"]
                /\ loc' = [loc EXCEPT ![p] = Finish(l1, "NotFound")]
           ELSE LET l2 == [l1 EXCEPT !.existing = existingLocation.location]
                IN  IF AddressTruthy(dto.address)
                    THEN /\ pc' = [pc EXCEPT ![p] = "u_geocode"]
                         /\ loc' = [loc EXCEPT ![p] = l2]
                    ELSE AfterGeocode(p, l2)
    /\ ops' = ops + 1
    /\ UNCHANGED <<cfg, buckets, direct, records, store, nextId, nextKey>>

\* An update() that carries on after a rejected geocoding call.
GeocodeThrew_Ignored(g) == FALSE

\* `await geocodeAddress(address)` in update() is inside the try block: a
\* rejection jumps to the catch block.
GeocodeThrew(g) == ~g.ok

\* `if (address) { ... await this.mapboxService.geocodeAddress(address) }`
UpdateGeocode(p, upstream) ==
    /\ pc[p] = "u_geocode"
    /\ LET l == loc[p]
           g == geocodeAddress(l.dto.address, upstream)
           l1 == Logged(l, "geocode", Absent, g.ok)
       IN  IF ~GeocodeThrew(g)
           THEN AfterGeocode(p, [l1 EXCEPT !.coordinates =
                                    [set |-> TRUE, latitude |-> g.latitude,
                                     longitude |-> g.longitude]])
           ELSE Caught(p, l1, g.err)
    /\ UNCHANGED <<cfg, buckets, direct, records, store, nextId, nextKey, ops>>

\* An update() that deletes the previous image as soon as the new one is up.
StoreAfterUpdateUpload_EagerDelete(l, u) ==
    (store \cup u.put) \ (IF isMinioPath(l.existing.image)
                          THEN {ObjectOf(extractMinioPath(l.existing.image))}
                          ELSE {})

\* The store after update()'s upload: the new object is added; the previous
\* image is only marked (oldImagePath), nothing is deleted yet.
StoreAfterUpdateUpload(l, u) == store \cup u.put

\* `if (imageFile) { uploadedFilePath = await uploadFile(...); ... }`
UpdateUpload(p, putErr) ==
    /\ pc[p] = "u_upload"
    /\ LET l == loc[p]
           u == uploadFile(l.file, LOCATIONS, nextKey, putErr)
           l1 == Logged(l, "upload", u.path, u.ok)
       IN  IF u.ok
           THEN /\ store' = StoreAfterUpdateUpload(l, u)
                /\ nextKey' = nextKey + 1
                /\ pc' = [pc EXCEPT ![p] = "u_persist"]
                /\ loc' = [loc EXCEPT ![p] =
                              [l1 EXCEPT !.uploadedFilePath = u.path,
                                         !.imageUrl = getFileUrl(u.path),
                                         !.oldImagePath =
                                             IF Truthy(l.existing.image)
                                                /\ isMinioPath(l.existing.image)
                                             THEN extractMinioPath(l.existing.image)
                                             ELSE Absent]]
           ELSE /\ UNCHANGED <<store, nextKey>>
                /\ Caught(p, l1, "UploadFailed")
    /\ UNCHANGED <<cfg, buckets, direct, records, nextId, ops>>

\* An update that writes the new latitude and leaves the longitude behind.
ApplyUpdateData_LatitudeOnly(old, l) ==
    [ name |-> IF l.dto.name # NoName THEN l.dto.name ELSE old.name,
      latitude |-> IF l.coordinates.set THEN l.coordinates.latitude ELSE old.latitude,
      longitude |-> old.longitude,
      image |-> IF l.imageUrl # Absent THEN l.imageUrl
                ELSE IF l.dto.image # Absent THEN l.dto.image
                ELSE old.image ]

\* updateData = {...rest, ...coordinates}, plus image when imageUrl is not
\* undefined, applied to the stored record `old`.
ApplyUpdateData(old, l) ==
    [ name |-> IF l.dto.name # NoName THEN l.dto.name ELSE old.name,
      latitude |-> IF l.coordinates.set THEN l.coordinates.latitude ELSE old.latitude,
      longitude |-> IF l.coordinates.set THEN l.coordinates.longitude ELSE old.longitude,
      image |-> IF l.imageUrl # Absent THEN l.imageUrl
                ELSE IF l.dto.image # Absent THEN l.dto.image
                ELSE old.image ]

\* `await this.prisma.location.update({where: {id}, data: updateData})`; it
\* throws when the record is gone or the database fails.
UpdatePersist(p, dbErr) ==
    /\ pc[p] = "u_persist"
    /\ LET l == loc[p]
           okay == ~dbErr /\ l.id \in DOMAIN records
           l1 == Logged(l, "persist", l.imageUrl, okay)
       IN  IF ~okay
           THEN /\ UNCHANGED records
                /\ Caught(p, l1, "PersistFailed")
           ELSE /\ records' = [records EXCEPT ![l.id] = ApplyUpdateData(@, l)]
                /\ IF Truthy(l.oldImagePath)
                   THEN /\ pc' = [pc EXCEPT ![p] = "u_cleanup"]
                        /\ loc' = [loc EXCEPT ![p] = l1]
                   ELSE /\ pc' = [pc EXCEPT ![p] = "done"]
                        /\ loc' = [loc EXCEPT ![p] = Finish(l1, "ok")]
    /\ UNCHANGED <<cfg, buckets, direct, store, nextId, nextKey, ops>>

\* `if (oldImagePath) await deleteFile(oldImagePath).catch(...)`, inside the
\* try block; then `return location`
UpdateCleanup(p, fault) ==
    /\ pc[p] = "u_cleanup"
    /\ LET l == loc[p]
           d == deleteFile(l.oldImagePath, store, fault)
           l1 == LoggedDelete(l, l.oldImagePath, store, fault, d)
           out == CleanupOutcome(d.ok)
       IN  /\ store' = d.objects
           /\ IF out = "ok"
              THEN /\ pc' = [pc EXCEPT ![p] = "done"]
                   /\ loc' = [loc EXCEPT ![p] = Finish(l1, "ok")]
              ELSE Caught(p, l1, out)
    /\ UNCHANGED <<cfg, buckets, direct, records, nextId, nextKey, ops>>

\* catch: `await this.minioService.deleteFile(uploadedFilePath).catch(...)`,
\* then `throw error`
UpdateRollback(p, fault) ==
    /\ pc[p] = "u_rollback"
    /\ LET l == loc[p]
           d == deleteFile(RollbackTarget(l), store, fault)
           l1 == LoggedDelete(l, RollbackTarget(l), store, fault, d)
       IN  /\ store' = d.objects
           /\ pc' = [pc EXCEPT ![p] = "done"]
           /\ loc' = [loc EXCEPT ![p] = Finish(l1, RollbackOutcome(l.error, d.ok))]
    /\ UNCHANGED <<cfg, buckets, direct, records, nextId, nextKey, ops>>

\* ---- remove
\* remove(), up to and including `await this.findOne(id)`
RemoveFind(p, id) ==
    /\ Free(p) /\ ops < MaxOps
    /\ LET location == findOne(id)
           l0 == [IdleLocals EXCEPT !.op = "remove", !.id = id]
           l1 == Logged(l0, "find", Absent, id \in DOMAIN records)
       IN  IF ~location.found
           THEN /\ pc' = [pc EXCEPT ![p] = "done"]
                /\ loc' = [loc EXCEPT ![p] = Finish(l1, "NotFound")]
           ELSE /\ pc' = [pc EXCEPT ![p] = "r_delete"]
                /\ loc' = [loc EXCEPT ![p] = [l1 EXCEPT !.existing = location.location]]
    /\ ops' = ops + 1
    /\ UNCHANGED <<cfg, buckets, direct, records, store, nextId, nextKey>>

\* `await this.prisma.location.delete({where: {id}})`, not in any try block
RemoveDelete(p, dbErr) ==
    /\ pc[p] = "r_delete"
    /\ LET l == loc[p]
           okay == ~dbErr /\ l.id \in DOMAIN records
           l1 == Logged(l, "persist", Absent, okay)
       IN  IF ~okay
           THEN /\ UNCHANGED records
                /\ pc' = [pc EXCEPT ![p] = "done"]
                /\ loc' = [loc EXCEPT ![p] = Finish(l1, "PersistFailed")]
           ELSE /\ records' = [i \in DOMAIN records \ {l.id} |-> records[i]]
                /\ IF Truthy(l.existing.image) /\ isMinioPath(l.existing.image)
                   THEN /\ pc' = [pc EXCEPT ![p] = "r_cleanup"]
                        /\ loc' = [loc EXCEPT ![p] =
                                      [l1 EXCEPT !.oldImagePath =
                                          extractMinioPath(l.existing.image)]]
                   ELSE /\ pc' = [pc EXCEPT ![p] = "done"]
                        /\ loc' = [loc EXCEPT ![p] = Finish(l1, "ok")]
    /\ UNCHANGED <<cfg, buckets, direct, store, nextId, nextKey, ops>>

\* `await this.minioService.deleteFile(imagePath).catch(...)`, then the
\* success message
RemoveCleanup(p, fault) ==
    /\ pc[p] = "r_cleanup"
    /\ LET l == loc[p]
           d == deleteFile(l.oldImagePath, store, fault)
           l1 == LoggedDelete(l, l.oldImagePath, store, fault, d)
       IN  /\ store' = d.objects
           /\ pc' = [pc EXCEPT ![p] = "done"]
           /\ loc' = [loc EXCEPT ![p] = Finish(l1, RemoveOutcome(d.ok))]
    /\ UNCHANGED <<cfg, buckets, direct, records, nextId, nextKey, ops>>

\* The response has been sent; the slot takes the next request.
Return(p) ==
    /\ pc[p] = "done"
    /\ pc' = [pc EXCEPT ![p] = "idle"]
    /\ loc' = [loc EXCEPT ![p] = IdleLocals]
    /\ UNCHANGED <<cfg, buckets, direct, records, store, nextId, nextKey, ops>>

\* ---- requests
\* The DTOs built from the given field values.
Dtos(addresses, names, images, keeps) ==
    { [address |-> a, name |-> n, image |-> i, keepImage |-> k] :
        a \in addresses, n \in names, i \in images, k \in keeps }

\* Identities a request may name: every one handed out so far, and one that
\* was never handed out.
RequestIds == 1..nextId

ValidFile == [present |-> TRUE, size |-> 2048, mimetype |-> "image/jpeg", ext |-> ".jpg"]

ValidAddress == [present |-> TRUE, text |-> <<"R", "1">>]

\* One successful geocoding response and one failed request.
FewResponses ==
    { [kind |-> "features", features |-> << <<11, 21>> >>],
      [kind |-> "error", features |-> <<>>] }

\* The steps every request takes after its first await, in slot p.
Continue(p, ups) ==
    \/ \E putErr \in BOOLEAN : CreateUpload(p, putErr)
    \/ \E dbErr \in BOOLEAN : CreatePersist(p, dbErr)
    \/ \E fault \in DeleteFaults : CreateRollback(p, fault)
    \/ \E up \in ups : UpdateGeocode(p, up)
    \/ \E putErr \in BOOLEAN : UpdateUpload(p, putErr)
    \/ \E dbErr \in BOOLEAN : UpdatePersist(p, dbErr)
    \/ \E fault \in DeleteFaults : UpdateCleanup(p, fault)
    \/ \E fault \in DeleteFaults : UpdateRollback(p, fault)
    \/ \E dbErr \in BOOLEAN : RemoveDelete(p, dbErr)
    \/ \E fault \in DeleteFaults : RemoveCleanup(p, fault)
    \/ Return(p)

\* Two requests in flight at a time, interleaving at every await. A request
\* carries a valid address and a valid file or none; a Create may carry the
\* public URL of an image some Location already shows.
Next ==
    \/ \E p \in Procs, up \in FewResponses, file \in {NoFile, ValidFile},
          dto \in Dtos({ValidAddress}, {"A"}, {Absent} \cup PublishedUrls, {"absent"}) :
          CreateGeocode(p, dto, file, up)
    \/ \E p \in Procs, id \in RequestIds, file \in {NoFile, ValidFile},
          dto \in Dtos({NoAddress, ValidAddress}, {NoName}, {Absent}, {"absent", "false"}) :
          UpdateFind(p, id, dto, file)
    \/ \E p \in Procs, id \in RequestIds : RemoveFind(p, id)
    \/ \E p \in Procs : Continue(p, FewResponses)

Spec == Init /\ [][Next]_vars

\* One request at a time (a single slot), with every kind of input.
NextSeq ==
    \/ ops < MaxSeqOps /\ \E up \in UpstreamResponses, file \in Files,
          dto \in Dtos(Addresses, {"A"}, {Absent} \cup CallerUrls, {"absent"}) :
          CreateGeocode(1, dto, file, up)
    \/ ops < MaxSeqOps /\ \E id \in RequestIds, file \in Files,
          dto \in Dtos({NoAddress} \cup Addresses, {NoName, "B"},
                       {Absent} \cup CallerUrls, KeepImageValues) :
          UpdateFind(1, id, dto, file)
    \/ ops < MaxSeqOps /\ \E id \in RequestIds : RemoveFind(1, id)
    \/ Continue(1, UpstreamResponses)

SpecSeq == Init /\ [][NextSeq]_vars

\* A valid image whose original name ends in a blank ('photo.jpg '):
\* path.extname keeps the blank in the extension.
PaddedFile == [present |-> TRUE, size |-> 2048, mimetype |-> "image/jpeg", ext |-> ".jpg "]

\* The answers of an upstream that is reachable.
ReachableResponses == {up \in UpstreamResponses : up.kind # "error"}

\* One request at a time while nothing fails: the geocoding service answers,
\* the store and the database carry out every call. A request's image field
\* is absent or the public URL of an uploaded blob. The catch blocks' rollback
\* deletes need a failure after an upload, so they have no step here.
NextClean ==
    \/ ops < MaxSeqOps /\ \E up \in ReachableResponses, file \in Files \cup {PaddedFile},
          dto \in Dtos(Addresses, {"A"}, {Absent} \cup PublishedUrls, {"absent"}) :
          CreateGeocode(1, dto, file, up)
    \/ ops < MaxSeqOps /\ \E id \in RequestIds, file \in Files \cup {PaddedFile},
          dto \in Dtos({NoAddress} \cup Addresses, {NoName, "B"},
                       {Absent} \cup PublishedUrls, KeepImageValues) :
          UpdateFind(1, id, dto, file)
    \/ ops < MaxSeqOps /\ \E id \in RequestIds : RemoveFind(1, id)
    \/ CreateUpload(1, FALSE)
    \/ CreatePersist(1, FALSE)
    \/ \E up \in ReachableResponses : UpdateGeocode(1, up)
    \/ UpdateUpload(1, FALSE)
    \/ UpdatePersist(1, FALSE)
    \/ UpdateCleanup(1, "none")
    \/ RemoveDelete(1, FALSE)
    \/ RemoveCleanup(1, "none")
    \/ Return(1)

SpecClean == Init /\ [][NextClean]_vars

\* ---- the object store's methods, called on their own
\* LocationsController.create: MaxFileSizeValidator({ maxSize: 20 * 1024 * 1024 })
controllerMaxSize == 20 * 1024 * 1024

\* File sizes around the two limits.
Sizes ==
    {0, 1, maxSize - 1, maxSize, maxSize + 1,
     controllerMaxSize - 1, controllerMaxSize, controllerMaxSize + 1}

\* Content types: the ones validateFile lists and some it does not.
MimeTypes ==
    {"image/jpeg", "image/jpg", "image/png", "image/gif", "image/webp", "image/svg+xml",
     "application/pdf", "text/html", "image/bmp", ""}

\* The files uploadFile may be handed.
StoreFiles ==
    {NoFile} \cup
    { [present |-> TRUE, size |-> sz, mimetype |-> mt, ext |-> e] :
        sz \in Sizes, mt \in MimeTypes, e \in {".jpg", ".jpg "} }

\* The paths deleteFile may be handed: of every file name drawn so far and of
\* the next one, which no upload has returned; no path; a bucket that is not
\* one of BucketType; a bucket with no file name.
StorePaths ==
    { <<LOCATIONS, UuidName(n, e)>> : n \in 1..nextKey, e \in {".jpg", ".jpg "} }
    \cup {Absent, Empty, <<"avatars", "u1.jpg">>, <<LOCATIONS>>, <<LOCATIONS, "">>}

DirectCall(op, arg, fault, out, before) ==
    [op |-> op, arg |-> arg, fault |-> fault, out |-> out, before |-> before]

\* uploadFile(file, BucketType.LOCATIONS); putObject fails when the store
\* rejects it, as it does for a bucket that does not exist.
StoreUpload(file, putErr) ==
    /\ nextKey <= MaxUploads
    /\ LET u == uploadFile(file, LOCATIONS, nextKey, putErr \/ ~buckets[LOCATIONS].exists)
       IN  /\ store' = store \cup u.put
           /\ nextKey' = IF u.sent THEN nextKey + 1 ELSE nextKey
           /\ direct' = DirectCall("uploadFile", file, IF putErr THEN "putObject" ELSE "none",
                                   u, store)
    /\ UNCHANGED <<cfg, records, nextId, ops, pc, loc, buckets>>

\* deleteFile(filePath)
StoreDelete(filePath, fault) ==
    /\ LET d == deleteFile(filePath, store, fault)
       IN  /\ store' = d.objects
           /\ direct' = DirectCall("deleteFile", filePath, fault, d, store)
    /\ UNCHANGED <<cfg, records, nextId, nextKey, ops, pc, loc, buckets>>

\* onModuleInit -> initializeBuckets
StoreInitialize(fault) ==
    /\ buckets' = initializeBuckets(buckets, fault)
    /\ direct' = DirectCall("initializeBuckets", Absent, fault, onModuleInit(buckets, fault), buckets)
    /\ UNCHANGED <<cfg, records, store, nextId, nextKey, ops, pc, loc>>

\* The store as the process may find it when it starts: each bucket missing,
\* bare or public; no object of this process in it.
InitStore ==
    /\ cfg = DefaultConfig
    /\ records = EmptyRecords
    /\ store = {}
    /\ nextId = 1
    /\ nextKey = 1
    /\ ops = 0
    /\ pc = [p \in Procs |-> "idle"]
    /\ loc = [p \in Procs |-> IdleLocals]
    /\ buckets \in {f \in [BucketTypes -> UNION {BucketStates(b) : b \in BucketTypes}] :
                       \A b \in BucketTypes : f[b] \in BucketStates(b)}
    /\ direct = NoDirect

NextStore ==
    \/ \E file \in StoreFiles, putErr \in BOOLEAN : StoreUpload(file, putErr)
    \/ \E filePath \in StorePaths, fault \in DeleteFaults : StoreDelete(filePath, fault)
    \/ \E fault \in InitFaults : StoreInitialize(fault)

SpecStore == InitStore /\ [][NextStore]_vars

\* ---- public URLs, built and read back
\* The paths uploadFile can return: bucket/uuid.ext for every extension a
\* file name can have.
UploadablePaths ==
    { <<b, UuidName(n, e)>> :
        b \in BucketTypes, n \in 1..(MaxUploads + 1), e \in Extensions \cup PaddedExtensions }

\* What LocationsService and MinioService together read from an image URL:
\* whether it is a store path (isMinioPath), and the bucket and file name
\* deleteFile takes from extractMinioPath's result.
ParseUrl(imageUrl) ==
    LET bf == extractBucketAndFileName(extractMinioPath(imageUrl))
    IN  [ok |-> isMinioPath(imageUrl), bucketName |-> bf.bucketName, fileName |-> bf.fileName]

\* The process starts with one of the endpoint configurations; some upload
\* has returned filePath.
InitUrl ==
    /\ cfg \in Configs
    /\ records = EmptyRecords
    /\ store = {}
    /\ nextId = 1
    /\ nextKey = 1
    /\ ops = 0
    /\ pc = [p \in Procs |-> "idle"]
    /\ loc = [p \in Procs |-> IdleLocals]
    /\ buckets = initializeBuckets([b \in BucketTypes |-> [exists |-> FALSE, policy |-> NoPolicy]], "none")
    /\ \E filePath \in UploadablePaths :
          direct = DirectCall("uploaded", filePath, "none", Absent, {})

\* imageUrl = this.minioService.getFileUrl(uploadedFilePath)
UrlBuild ==
    /\ direct.op = "uploaded"
    /\ direct' = DirectCall("getFileUrl", direct.arg, "none", getFileUrl(direct.arg), {})
    /\ UNCHANGED <<cfg, records, store, nextId, nextKey, ops, pc, loc, buckets>>

\* isMinioPath(image), extractMinioPath(image) and deleteFile's reading of
\* the path, applied to the URL getFileUrl built.
UrlParse ==
    /\ direct.op = "getFileUrl"
    /\ direct' = DirectCall("parseUrl", direct.arg, "none", ParseUrl(direct.out), {})
    /\ UNCHANGED <<cfg, records, store, nextId, nextKey, ops, pc, loc, buckets>>

NextUrl == UrlBuild \/ UrlParse

SpecUrl == InitUrl /\ [][NextUrl]_vars

\* ---- the geocoding client, called on its own
\* Characters an address is made of: a blank and two others.
AddressChars == {" ", "R", "1"}

\* The address arguments: undefined, and every string of up to MaxAddressLen
\* characters.
GeocodeAddresses ==
    {NoAddress} \cup
    { [present |-> TRUE, text |-> t] :
        t \in UNION {[1..n -> AddressChars] : n \in 0..MaxAddressLen} }

\* What forwardGeocode can come back with, a body with two features
\* included.
GeocodeResponses ==
    UpstreamResponses \cup {[kind |-> "features", features |-> << <<12, 22>>, <<11, 21>> >>]}

\* Some caller is about to geocode an address; the upstream service is
\* about to answer in some way.
InitGeo ==
    /\ cfg = DefaultConfig
    /\ records = EmptyRecords
    /\ store = {}
    /\ nextId = 1
    /\ nextKey = 1
    /\ ops = 0
    /\ pc = [p \in Procs |-> "idle"]
    /\ loc = [p \in Procs |-> IdleLocals]
    /\ buckets = initializeBuckets([b \in BucketTypes |-> [exists |-> FALSE, policy |-> NoPolicy]], "none")
    /\ \E address \in GeocodeAddresses, upstream \in GeocodeResponses :
          direct = DirectCall("geocoding", address, upstream, Absent, {})

\* geocodeAddress(address)
Geocode ==
    /\ direct.op = "geocoding"
    /\ direct' = DirectCall("geocodeAddress", direct.arg, direct.fault,
                            geocodeAddress(direct.arg, direct.fault), {})
    /\ UNCHANGED <<cfg, records, store, nextId, nextKey, ops, pc, loc, buckets>>

NextGeo == Geocode

SpecGeo == InitGeo /\ [][NextGeo]_vars

\* ================================================================ claims
\* The collaborator calls of a request, by name, in the order it made them.
CallNames(l) == [k \in 1..Len(l.calls) |-> l.calls[k].call]

\* The calls of one kind a request made.
CallsTo(l, name) == SelectSeq(l.calls, LAMBDA c : c.call = name)

\* The request made a call of this kind with this outcome.
HasCall(l, name, ok) == \E k \in 1..Len(l.calls) : l.calls[k].call = name /\ l.calls[k].ok = ok

\* Slot p takes a step.
Acts(p) == pc'[p] # pc[p]

\* The three ways geocoding fails.
GeocodeErrors == {"InvalidInput", "AddressNotFound", "UpstreamUnavailable"}

\* ---- C1
\* A create() whose upload succeeded and whose prisma create failed has returned.
C1_Case(p) ==
    /\ pc[p] = "done" /\ loc[p].op = "create"
    /\ HasCall(loc[p], "upload", TRUE) /\ HasCall(loc[p], "persist", FALSE)

C1_AtReturn ==
    \A p \in Procs : C1_Case(p) =>
        LET l == loc[p] IN
        /\ CallNames(l) = <<"geocode", "upload", "persist", "delete">>
        /\ l.calls[4].arg = l.calls[2].arg
        /\ l.calls[2].arg = l.uploadedFilePath
        /\ l.id = 0
        /\ l.result = "PersistFailed"

C1_NoRecordWritten ==
    \A p \in Procs :
        (Acts(p) /\ loc[p].op = "create" /\ pc[p] \in {"c_persist", "c_rollback"}
            /\ HasCall(loc'[p], "persist", FALSE))
        => records' = records

\* C1: a Create whose address geocodes and whose blob uploads, and whose
\* persistence step fails, makes exactly one Upload call and then exactly one
\* store Delete call, for the path Upload returned; it writes no record and
\* the caller sees the persistence error.
C1_CreateCompensatesPersistFailure == []C1_AtReturn /\ [][C1_NoRecordWritten]_vars

\* C1 witness: such a Create has returned, its rollback delete done.
C1_Witness ==
    \E p \in Procs : C1_Case(p) /\ HasCall(loc[p], "delete", TRUE)
                     /\ ObjectOf(loc[p].uploadedFilePath) \notin store

\* ---- C2
\* A create() whose geocoding call failed has returned.
C2_Case(p) ==
    /\ pc[p] = "done" /\ loc[p].op = "create"
    /\ loc[p].calls # <<>> /\ loc[p].calls[1] = Call("geocode", Absent, FALSE)

C2_AtReturn ==
    \A p \in Procs : C2_Case(p) =>
        /\ CallNames(loc[p]) = <<"geocode">>
        /\ loc[p].result \in GeocodeErrors

C2_NoSideEffect ==
    \A p \in Procs :
        (Acts(p) /\ loc'[p].op = "create" /\ HasCall(loc'[p], "geocode", FALSE))
        => records' = records /\ store' = store

\* C2: a Create whose address fails geocoding, for every kind of geocoding
\* failure, makes no Upload and no Persist call and leaves the records and
\* the object store as they were.
C2_FailFastOnGeocode == []C2_AtReturn /\ [][C2_NoSideEffect]_vars

\* C2 witness: a Create carrying a file has returned with each of the three
\* geocoding failures being possible; here the upstream one.
C2_Witness ==
    \E p \in Procs : C2_Case(p) /\ loc[p].file.present
                     /\ loc[p].result = "UpstreamUnavailable"

\* ---- C3
\* C3: in every reachable state, every persisted Location whose image is a
\* store-managed reference names a blob that exists in the object store.
C3_NoDanglingReference ==
    \A i \in DOMAIN records :
        isMinioPath(records[i].image)
        => ObjectOf(extractMinioPath(records[i].image)) \in store

\* ---- C4
\* An update() that uploaded a new blob and whose prisma update failed has returned.
C4_Case(p) ==
    /\ pc[p] = "done" /\ loc[p].op = "update"
    /\ HasCall(loc[p], "upload", TRUE) /\ HasCall(loc[p], "persist", FALSE)

C4_AtReturn ==
    \A p \in Procs : C4_Case(p) =>
        LET l == loc[p]
            deletes == CallsTo(l, "delete")
        IN  /\ Len(deletes) = 1
            /\ deletes[1].arg = CallsTo(l, "upload")[1].arg
            /\ deletes[1].arg # l.oldImagePath
            /\ l.result = "PersistFailed"

C4_RecordUnchanged ==
    \A p \in Procs :
        (Acts(p) /\ loc[p].op = "update" /\ HasCall(loc'[p], "persist", FALSE))
        => records' = records

\* C4: an Update that uploaded a new blob and whose persistence step then
\* fails makes exactly one store Delete call, for the newly uploaded path,
\* none for the previous image, leaves the record as it was and surfaces the
\* persistence error.
C4_UpdateCompensatesPersistFailure == []C4_AtReturn /\ [][C4_RecordUnchanged]_vars

\* C4 witness: such an Update, on a Location with a previous store image,
\* has returned; the previous blob is still there, the new one is gone.
C4_Witness ==
    \E p \in Procs :
        /\ C4_Case(p) /\ Truthy(loc[p].oldImagePath)
        /\ ObjectOf(loc[p].oldImagePath) \in store
        /\ ObjectOf(loc[p].uploadedFilePath) \notin store

\* ---- C5
\* The previous image of the Location an update() works on, as a store object.
OldObject(l) == ObjectOf(extractMinioPath(l.existing.image))

\* An update() that came with a file for a Location with a store image.
C5_Case(l) == l.op = "update" /\ l.file.present /\ isMinioPath(l.existing.image)

C5_DeleteAfterCommit ==
    \A p \in Procs : C5_Case(loc[p]) =>
        \A k \in 1..Len(loc[p].calls) :
            (loc[p].calls[k].call = "delete"
                /\ ObjectOf(loc[p].calls[k].arg) = OldObject(loc[p]))
            => \E j \in 1..(k - 1) :
                   /\ loc[p].calls[j] = Call("persist", loc[p].imageUrl, TRUE)
                   /\ loc[p].imageUrl = getFileUrl(loc[p].uploadedFilePath)

C5_OldBlobKeptUntilCommit ==
    \A p \in Procs :
        (Acts(p) /\ C5_Case(loc'[p]) /\ ~HasCall(loc'[p], "persist", TRUE)
            /\ OldObject(loc'[p]) \in store)
        => OldObject(loc'[p]) \in store'

\* C5: in an Update with a new blob on a Location whose previous image is in
\* the store, the Delete of the previous blob comes only after the persist
\* of the new image URL succeeded; while that persist has not succeeded, and
\* when it fails, no step of the Update removes the previous blob.
C5_OldImageDeletedOnlyAfterCommit ==
    []C5_DeleteAfterCommit /\ [][C5_OldBlobKeptUntilCommit]_vars

\* C5 witness: such an Update has returned after its persist failed, with
\* the previous blob still in the store.
C5_Witness ==
    \E p \in Procs :
        /\ pc[p] = "done" /\ C5_Case(loc[p])
        /\ HasCall(loc[p], "persist", FALSE)
        /\ OldObject(loc[p]) \in store

\* ---- C6
\* The paths uploadFile has returned so far.
UploadedPaths == {<<LOCATIONS, UuidName(n, f.ext)>> : n \in 1..(nextKey - 1), f \in Files}

\* The image value is the public URL of an uploaded blob.
StoreManaged(imageUrl) == \E path \in UploadedPaths : imageUrl = getFileUrl(path)

\* The uploaded path whose public URL the image value is.
PathBehind(imageUrl) == CHOOSE path \in UploadedPaths : imageUrl = getFileUrl(path)

\* An update() with keepImage=false and no file, on a Location whose image
\* is the URL of an uploaded blob, has returned the updated Location.
C6_Case(p) ==
    /\ pc[p] = "done" /\ loc[p].op = "update" /\ loc[p].result = "ok"
    /\ ~loc[p].file.present /\ loc[p].dto.keepImage = "false"
    /\ StoreManaged(loc[p].existing.image)

C7_ImageUntouched ==
    \A p \in Procs :
        (/\ pc[p] = "done" /\ loc[p].op = "update" /\ loc[p].result = "ok"
         /\ ~loc[p].file.present /\ loc[p].dto.keepImage # "false")
        => /\ records[loc[p].id].image = loc[p].existing.image
           /\ CallsTo(loc[p], "upload") = <<>>
           /\ CallsTo(loc[p], "delete") = <<>>

\* ---- C8
\* A remove() of an existing Location has returned.
C8_Case(p) == pc[p] = "done" /\ loc[p].op = "remove" /\ HasCall(loc[p], "find", TRUE)

C8_AtReturn ==
    \A p \in Procs : C8_Case(p) =>
        LET l == loc[p] IN
        IF HasCall(l, "persist", TRUE)
        THEN l.result = "ok"
        ELSE l.result = "PersistFailed" /\ CallsTo(l, "delete") = <<>>

C8_RecordFirst ==
    \A p \in Procs : loc[p].op = "remove" =>
        \A k \in 1..Len(loc[p].calls) :
            loc[p].calls[k].call = "delete"
            => /\ k > 1 /\ loc[p].calls[k - 1] = Call("persist", Absent, TRUE)
               /\ loc[p].id \notin DOMAIN records

\* C8: Delete on an existing Location deletes the record first and only then
\* attempts the blob delete; it returns success whenever the record deletion
\* committed, also when the blob delete fails; when the record deletion
\* fails it makes no blob Delete call and surfaces the error.
C8_RemoveRecordThenBlob == C8_AtReturn /\ C8_RecordFirst

\* C8 witness: a Delete has returned success although its blob delete failed
\* and the blob is still in the store.
C8_Witness ==
    \E p \in Procs :
        /\ C8_Case(p) /\ HasCall(loc[p], "delete", FALSE)
        /\ loc[p].result = "ok"
        /\ ObjectOf(loc[p].oldImagePath) \in store

\* ---- C9
\* An update() whose prisma update succeeded and whose delete of the
\* previous image failed has returned.
C9_Case(p) ==
    /\ pc[p] = "done" /\ loc[p].op = "update"
    /\ HasCall(loc[p], "persist", TRUE) /\ HasCall(loc[p], "delete", FALSE)

\* C9: when an Update's persistence succeeds and the delete of the previous
\* image then fails, the Update still returns the updated Location, and it
\* makes no Delete call for the blob it uploaded.
C9_CleanupFailureIsNotFatal ==
    \A p \in Procs : C9_Case(p) =>
        LET l == loc[p] IN
        /\ l.result = "ok"
        /\ Len(CallsTo(l, "delete")) = 1
        /\ CallsTo(l, "delete")[1].arg = l.oldImagePath
        /\ CallsTo(l, "delete")[1].arg # l.uploadedFilePath

\* C9 witness: such an Update, which uploaded a new blob, has returned, and
\* the new blob is in the store.
C9_Witness ==
    \E p \in Procs :
        /\ C9_Case(p) /\ Truthy(loc[p].uploadedFilePath)
        /\ ObjectOf(loc[p].uploadedFilePath) \in store

\* ---- C10
\* A create() or update() has returned after its catch block ran the
\* rollback delete.
C10_Case(p) ==
    /\ pc[p] = "done" /\ loc[p].op \in {"create", "update"}
    /\ Truthy(loc[p].uploadedFilePath)
    /\ \E k \in 1..Len(loc[p].calls) :
           loc[p].calls[k].call = "delete" /\ loc[p].calls[k].arg = loc[p].uploadedFilePath

\* C10: when a step of Create or Update fails and the rollback delete runs,
\* the caller sees the error of the step that failed (here always the
\* persistence step), whether the rollback delete succeeds or fails.
C10_OriginalErrorSurvivesRollback ==
    \A p \in Procs : C10_Case(p) =>
        /\ HasCall(loc[p], "persist", FALSE)
        /\ loc[p].result = "PersistFailed"

\* C10 witness: a Create and an Update have both returned after a rollback
\* delete that failed, their blobs still in the store.
C10_Witness ==
    \E p, q \in Procs :
        /\ C10_Case(p) /\ loc[p].op = "create" /\ HasCall(loc[p], "delete", FALSE)
        /\ C10_Case(q) /\ loc[q].op = "update" /\ HasCall(loc[q], "delete", FALSE)
        /\ ObjectOf(loc[p].uploadedFilePath) \in store
        /\ ObjectOf(loc[q].uploadedFilePath) \in store

\* ---- C11
\* An update() or remove() that named an id with no persisted Location.
C11_Case(l) == l.op \in {"update", "remove"} /\ HasCall(l, "find", FALSE)

C11_AtReturn ==
    \A p \in Procs : (pc[p] # "idle" /\ C11_Case(loc[p])) =>
        /\ pc[p] = "done"
        /\ loc[p].result = "NotFound"
        /\ CallNames(loc[p]) = <<"find">>

C11_NothingChanged ==
    \A p \in Procs :
        (Acts(p) /\ C11_Case(loc'[p])) => records' = records /\ store' = store

\* C11: Update and Delete on an id with no persisted Location fail with
\* NotFound and make no Geocode, Upload, Persist or store Delete call; the
\* records and the object store stay as they were.
C11_NotFoundHasNoSideEffect == []C11_AtReturn /\ [][C11_NothingChanged]_vars

\* C11 witness: an Update carrying an address, a file and keepImage=false
\* for an id whose Location was deleted has returned NotFound.
C11_Witness ==
    \E p \in Procs :
        /\ pc[p] = "done" /\ loc[p].op = "update" /\ C11_Case(loc[p])
        /\ loc[p].id < nextId
        /\ loc[p].file.present /\ AddressTruthy(loc[p].dto.address)
        /\ loc[p].dto.keepImage = "false"

\* ---- C12
\* The object the path of the last deleteFile call names, as deleteFile reads it.
DirectObject ==
    LET bf == extractBucketAndFileName(direct.arg) IN <<bf.bucketName, bf.fileName>>

\* deleteFile was called with the path of an object in a bucket of BucketType.
C12_Case == direct.op = "deleteFile" /\ ~InvalidPath(extractBucketAndFileName(direct.arg))

C12_MissingObject ==
    (C12_Case /\ DirectObject \notin direct.before)
    => direct.out.ok /\ store = direct.before

C12_SecondCall ==
    (C12_Case /\ direct.fault = "none")
    => /\ direct.out.ok
       /\ DirectObject \notin store
       /\ deleteFile(direct.arg, store, "none") = [ok |-> TRUE, objects |-> store]

\* C12: deleteFile for a known bucket and an object that does not exist
\* returns without error and leaves the store as it was; so a second
\* deleteFile of the same object, the store raising no error, succeeds like
\* the first and leaves the store as the first left it.
C12_DeleteIsIdempotent == C12_MissingObject /\ C12_SecondCall

\* C12 witness: deleteFile was called for an object that is not in the
\* store, which holds another object; and the store is as before.
C12_Witness ==
    /\ C12_Case /\ DirectObject \notin direct.before
    /\ direct.before # {} /\ store = direct.before

\* ---- C13
\* C13: for every known bucket, every key uploadFile can generate and every
\* endpoint configuration, reading back the public URL built for the path
\* bucket/key finds it store-managed and yields the same bucket and key.
C13_UrlRoundTrip ==
    direct.op = "parseUrl"
    => direct.out = [ok |-> TRUE, bucketName |-> direct.arg[1], fileName |-> Tail(direct.arg)]

\* ---- C14
\* The last call was uploadFile with a file.
Uploaded == direct.op = "uploadFile" /\ direct.arg.present

\* The store served that uploadFile call: the bucket exists and putObject,
\* if called, did not fail.
StoreServed == direct.fault = "none" /\ buckets[LOCATIONS].exists

\* The rejections that apply to a file.
C14_Rejections(file) ==
    {e \in {"Empty", "TooLarge", "UnsupportedType"} :
        \/ e = "Empty" /\ file.size = 0
        \/ e = "TooLarge" /\ file.size > 12 * 1024 * 1024
        \/ e = "UnsupportedType" /\ file.mimetype \notin allowedTypes}

\* C14: an uploadFile of a file that is empty, over the ceiling or of a
\* content type outside the allow-list fails with the corresponding error and
\* without a putObject call: no object is created and the store holds what
\* it held before.
C14_RejectedUploadWritesNothing ==
    (Uploaded /\ C14_Rejections(direct.arg) # {})
    => /\ ~direct.out.ok
       /\ direct.out.cause \in C14_Rejections(direct.arg)
       /\ ~direct.out.sent
       /\ direct.out.put = {}
       /\ store = direct.before

\* C14 witness: an application/pdf file of an acceptable size was rejected
\* as UnsupportedType by a store that holds an object and could have served
\* the call.
C14_Witness ==
    /\ Uploaded /\ StoreServed
    /\ direct.arg.mimetype = "application/pdf" /\ direct.arg.size = 1
    /\ direct.out.cause = "UnsupportedType"
    /\ store # {} /\ store = direct.before

C16_Case == Uploaded /\ StoreServed /\ direct.arg.size > 0 /\ direct.arg.size <= maxSize

\* C16: uploadFile accepts a file's content type if and only if it is one
\* of image/jpeg, image/png, image/gif, image/webp, image/svg+xml, and
\* rejects every other one with UnsupportedType.
C16_AcceptsExactlyFiveTypes ==
    C16_Case =>
        IF direct.arg.mimetype \in
               {"image/jpeg", "image/png", "image/gif", "image/webp", "image/svg+xml"}
        THEN direct.out.ok
        ELSE ~direct.out.ok /\ direct.out.cause = "UnsupportedType"

\* C16, amended: uploadFile accepts a file's content type if and only if it
\* is one of image/jpeg, image/jpg, image/png, image/gif, image/webp,
\* image/svg+xml, and rejects every other one with UnsupportedType.
C16_AcceptsExactlySixTypes ==
    C16_Case =>
        IF direct.arg.mimetype \in
               {"image/jpeg", "image/jpg", "image/png", "image/gif", "image/webp",
                "image/svg+xml"}
        THEN direct.out.ok
        ELSE ~direct.out.ok /\ direct.out.cause = "UnsupportedType"

\* C16 witness: a file of type image/jpg has been stored.
C16_Witness ==
    /\ C16_Case /\ direct.arg.mimetype = "image/jpg"
    /\ direct.out.ok /\ ObjectOf(direct.out.path) \in store

\* ---- C17
\* The address is empty or made of blanks only.
BlankAddress(address) ==
    ~address.present \/ \A k \in 1..Len(address.text) : address.text[k] = " "

\* The upstream answer has at least one match.
HasMatch(upstream) == upstream.kind = "features" /\ Len(upstream.features) > 0

\* C17: geocodeAddress fails with InvalidInput, the upstream service not
\* called, exactly when the address is empty or blank; otherwise with
\* not-found exactly when the lookup returns no match and with
\* UpstreamUnavailable exactly when the request fails; the three failures
\* are told apart by exception class and message; otherwise it succeeds with
\* the coordinates of the first match.
C17_GeocodeClassifiesFailures ==
    direct.op = "geocodeAddress" =>
        LET address == direct.arg
            upstream == direct.fault
            g == direct.out
        IN  /\ BlankAddress(address)
               => ~g.ok /\ g.err = "InvalidInput" /\ ~g.sent
            /\ (~BlankAddress(address) /\ upstream.kind = "error")
               => ~g.ok /\ g.err = "UpstreamUnavailable" /\ g.sent
            /\ (~BlankAddress(address) /\ upstream.kind # "error" /\ ~HasMatch(upstream))
               => ~g.ok /\ g.err = "AddressNotFound" /\ g.sent
            /\ (~BlankAddress(address) /\ HasMatch(upstream))
               => /\ g.ok /\ g.sent
                  /\ g.longitude = upstream.features[1][1]
                  /\ g.latitude = upstream.features[1][2]
            /\ ~g.ok => /\ g.err \in GeocodeErrors
                        /\ g.exception = IF g.err = "UpstreamUnavailable"
                                          THEN "InternalServerErrorException"
                                          ELSE "BadRequestException"

\* C17 witness: an address of blanks was rejected as InvalidInput although
\* the upstream service would have found a match.
C17_Witness ==
    /\ direct.op = "geocodeAddress"
    /\ direct.arg.present /\ Len(direct.arg.text) = MaxAddressLen
    /\ BlankAddress(direct.arg) /\ HasMatch(direct.fault)
    /\ direct.out.err = "InvalidInput" /\ ~direct.out.sent

\* ---- C18
\* C18: after initializeBuckets has run with no store call failing, every
\* bucket of BucketType exists and carries the public-read policy, whatever
\* the store held before, a bucket that existed without that policy included.
C18_InitializeMakesBucketsPublic ==
    (direct.op = "initializeBuckets" /\ direct.fault = "none")
    => \A b \in BucketTypes :
           buckets[b].exists /\ buckets[b].policy = PublicReadPolicy(b)

\* ---- C19
\* A create() whose uploadFile call threw.
C19_Case(l) == l.op = "create" /\ HasCall(l, "upload", FALSE)

C19_AtReturn ==
    \A p \in Procs : (pc[p] # "idle" /\ C19_Case(loc[p])) =>
        /\ pc[p] = "done"
        /\ loc[p].result = "UploadFailed"
        /\ CallNames(loc[p]) = <<"geocode", "upload">>
        /\ loc[p].id = 0

C19_NothingChanged ==
    \A p \in Procs :
        (Acts(p) /\ C19_Case(loc'[p])) => records' = records /\ store' = store

\* C19: a Create with a file whose Upload fails, by validation or by the
\* store, surfaces the upload failure and makes no Persist and no store
\* Delete call; no Location is created and no blob is left in the store.
C19_CreateUploadFailure == []C19_AtReturn /\ [][C19_NothingChanged]_vars

\* C19 witness: a Create has returned UploadFailed for a file that passes
\* validation, the store having rejected it.
C19_Witness ==
    \E p \in Procs :
        /\ pc[p] = "done" /\ C19_Case(loc[p])
        /\ validateFile(loc[p].file) = ""
        /\ loc[p].result = "UploadFailed"

\* ---- C20
\* An update() whose geocoding call failed.
C20_Case(l) == l.op = "update" /\ HasCall(l, "geocode", FALSE)

C20_AtReturn ==
    \A p \in Procs : (pc[p] # "idle" /\ C20_Case(loc[p])) =>
        /\ pc[p] = "done"
        /\ loc[p].result \in GeocodeErrors
        /\ CallNames(loc[p]) = <<"find", "geocode">>

C20_NothingChanged ==
    \A p \in Procs :
        (Acts(p) /\ C20_Case(loc'[p])) => records' = records /\ store' = store

\* C20: an Update whose address fails geocoding aborts with the geocoding
\* error and makes no Upload, no Persist and no store Delete call; the record
\* and the object store stay as they were, also when a file or
\* keepImage=false came with the request.
C20_UpdateGeocodeFailure == []C20_AtReturn /\ [][C20_NothingChanged]_vars

\* C20 witness: an Update with a file and keepImage=false, on a Location
\* whose image is in the store, has returned a geocoding error.
C20_Witness ==
    \E p \in Procs :
        /\ pc[p] = "done" /\ C20_Case(loc[p])
        /\ loc[p].file.present /\ loc[p].dto.keepImage = "false"
        /\ isMinioPath(loc[p].existing.image)
        /\ OldObject(loc[p]) \in store

\* ---- C21
\* The path under which a stored object is addressed.
PathOfObject(object) == <<object[1]>> \o object[2]

\* The persisted Locations whose image field is the public URL of the object.
ReferencesTo(object) ==
    {i \in DOMAIN records : records[i].image = getFileUrl(PathOfObject(object))}

\* C21: every blob in the store is referenced, through its public URL, by
\* the image field of at most one persisted Location, whatever Creates,
\* Updates and Deletes ran and whatever inputs the callers supplied.
C21_BlobHasAtMostOneLocation ==
    \A object \in store : Cardinality(ReferencesTo(object)) <= 1

\* ---- C22
\* The coordinate pairs a geocoding call can return: the center of the first
\* feature of an upstream answer.
GeocodedPairs ==
    {[latitude |-> g.latitude, longitude |-> g.longitude] :
        g \in {r \in {geocodeAddress(a, up) : a \in Addresses, up \in UpstreamResponses} : r.ok}}

\* The coordinates a Location record carries.
CoordinatesOf(location) == [latitude |-> location.latitude, longitude |-> location.longitude]

\* A create() or update() has returned its Location.
C22_Returned(p, op) == pc[p] = "done" /\ loc[p].op = op /\ loc[p].result = "ok"

\* C22: every persisted Location carries a latitude and a longitude that
\* were set together (both present, as one geocoding call returned them);
\* after a successful Create, or a successful Update that geocoded its
\* address, the record's coordinates are the ones that operation's geocoding
\* call returned; after a successful Update without an address they are the
\* ones the Location had before.
C22_CoordinatesSetTogether ==
    /\ \A i \in DOMAIN records :
          /\ (records[i].latitude = NoCoords.latitude) <=> (records[i].longitude = NoCoords.longitude)
          /\ CoordinatesOf(records[i]) \in GeocodedPairs
    /\ \A p \in Procs :
          /\ (C22_Returned(p, "create") \/ (C22_Returned(p, "update") /\ HasCall(loc[p], "geocode", TRUE)))
             => /\ loc[p].coordinates.set
                /\ CoordinatesOf(records[loc[p].id]) = CoordinatesOf(loc[p].coordinates)
          /\ (C22_Returned(p, "update") /\ ~loc[p].dto.address.present)
             => CoordinatesOf(records[loc[p].id]) = CoordinatesOf(loc[p].existing)

\* An Update geocoded its new address and moved the Location: both the
\* latitude and the longitude of the record differ from the ones it had.
C22_Witness ==
    \E p \in Procs :
        /\ C22_Returned(p, "update") /\ HasCall(loc[p], "geocode", TRUE)
        /\ CoordinatesOf(records[loc[p].id]) # CoordinatesOf(loc[p].existing)
        /\ records[loc[p].id].latitude # loc[p].existing.latitude
        /\ records[loc[p].id].longitude # loc[p].existing.longitude

\* ---- C23
\* C23: initializeBuckets never raises, whichever store call fails (the
\* existence check, the bucket creation, the policy attachment): the failure
\* is logged for the bucket it hit and start-up goes on.
C23_InitializeNeverRaises ==
    direct.op = "initializeBuckets"
    => /\ ~direct.out.threw
       /\ direct.out.logged = {b \in BucketTypes : InitFaultMet(direct.before[b], direct.fault) # "none"}

\* initializeBuckets ran while a store call failed: the bucket it was
\* creating is still not public, and nothing was raised.
C23_Witness ==
    /\ direct.op = "initializeBuckets"
    /\ direct.fault # "none" /\ direct.out.logged # {}
    /\ \E b \in direct.out.logged : buckets[b].policy # PublicReadPolicy(b)
    /\ ~direct.out.threw

\* ---- C24
\* An update() of an existing Location whose address field is present but
\* empty or made of blanks only has returned or thrown.
C24_Case(p) ==
    /\ pc[p] = "done" /\ loc[p].op = "update" /\ HasCall(loc[p], "find", TRUE)
    /\ loc[p].dto.address.present /\ Len(Trim(loc[p].dto.address.text)) = 0

\* C24: an Update whose address field is present is geocoded, so one whose
\* address is empty or whitespace-only fails with InvalidInput and persists
\* nothing.
C24_BlankAddressIsRejected ==
    \A p \in Procs : C24_Case(p) =>
        /\ loc[p].result = "InvalidInput"
        /\ CallsTo(loc[p], "geocode") # <<>>
        /\ CallsTo(loc[p], "persist") = <<>>
        /\ records[loc[p].id] = loc[p].existing

\* ---- C25
\* An update() or remove() of a Location whose image is an external URL the
\* caller supplied at Create: never the URL of an uploaded blob.
C25_Case(l) ==
    /\ l.op \in {"update", "remove"}
    /\ l.existing.image \in ExternalUrls /\ ~StoreManaged(l.existing.image)

\* C25: a Location whose image is a caller-supplied external URL is never
\* treated as store-managed: no Update or Delete of it issues a store Delete
\* for that image (the only Delete an Update may issue is the rollback of
\* its own upload), also when the URL's path contains the bucket name.
C25_ExternalImageIsNeverDeleted ==
    \A p \in Procs : C25_Case(loc[p]) =>
        /\ ~Truthy(loc[p].oldImagePath)
        /\ \A k \in 1..Len(loc[p].calls) :
              loc[p].calls[k].call = "delete"
              => /\ Truthy(loc[p].uploadedFilePath)
                 /\ loc[p].calls[k].arg = loc[p].uploadedFilePath

\* ---- C26
\* C26: whenever deleteFile returns without throwing, the object its path
\* names is not in the store afterwards, also when the existence check
\* itself ran into a store error.
C26_SuccessMeansGone ==
    (direct.op = "deleteFile" /\ direct.out.ok) => DirectObject \notin store

\* ---- C27
\* No store or database call of the request ran into an error.
FailureFree(l) ==
    \A k \in 1..Len(l.calls) : l.calls[k].ok /\ l.calls[k].fault = "none"

\* The blobs an update() touches: the previous image of the Location it
\* read, when it is a stored one, and its own upload.
BlobsOfUpdate(l) ==
    (IF isMinioPath(l.existing.image) THEN {OldObject(l)} ELSE {})
    \cup (IF Truthy(l.uploadedFilePath) THEN {ObjectOf(l.uploadedFilePath)} ELSE {})

\* Two update() calls for the same Location, each with a file, have both
\* returned the updated Location, no call of either having failed.
C27_Case ==
    /\ \A p \in Procs :
          /\ pc[p] = "done" /\ loc[p].op = "update" /\ loc[p].result = "ok"
          /\ loc[p].file.present /\ FailureFree(loc[p])
    /\ loc[1].id = loc[2].id

\* C27: after two Updates of the same Location, each with a new blob, have
\* both returned with no I/O step failing, the store holds exactly one of the
\* previous image and the two uploads: the one the record's image refers to.
C27_ConcurrentUpdatesLeaveOneBlob ==
    C27_Case =>
        /\ loc[1].id \in DOMAIN records
        /\ store \cap (BlobsOfUpdate(loc[1]) \cup BlobsOfUpdate(loc[2]))
              = {ObjectOf(extractMinioPath(records[loc[1].id].image))}

\* ---- C28
\* No store call of the request ran into an error.
StoreFailureFree(l) ==
    \A k \in 1..Len(l.calls) :
        l.calls[k].call \in {"upload", "delete"} => l.calls[k].ok /\ l.calls[k].fault = "none"

\* A remove() and an update() with a file, for the same Location, have both
\* finished, the remove() with its success message, no store call of either
\* having failed. d is the slot of the remove(), u the slot of the update().
C28_Case(d, u) ==
    /\ pc[d] = "done" /\ loc[d].op = "remove" /\ loc[d].result = "ok"
    /\ pc[u] = "done" /\ loc[u].op = "update" /\ loc[u].file.present
    /\ loc[u].id = loc[d].id /\ HasCall(loc[u], "find", TRUE)
    /\ StoreFailureFree(loc[d]) /\ StoreFailureFree(loc[u])

\* C28: when a Delete and an Update with a new blob run for the same
\* Location and the Delete returns success, then once both have finished no
\* blob of that Location is left in the store: not the image it had, not the
\* Update's upload.
C28_DeleteLeavesNoBlob ==
    \A d \in Procs, u \in Procs : C28_Case(d, u) =>
        /\ loc[d].id \notin DOMAIN records
        /\ store \cap (BlobsOfUpdate(loc[u]) \cup
                       (IF isMinioPath(loc[d].existing.image) THEN {OldObject(loc[d])} ELSE {})) = {}

\* ---- C29
\* No request is in the middle of an operation.
BetweenOperations == \A p \in Procs : pc[p] \in {"idle", "done"}

\* Every Location's image is absent, empty or the public URL of a blob that
\* uploadFile stored.
ImagesAreUploads ==
    \A i \in DOMAIN records : Truthy(records[i].image) => StoreManaged(records[i].image)

\* C29: when operations run one after another, none of them fails, and
\* every Location's image is absent or the URL of an uploaded blob, then
\* after each operation every blob in the store is referenced by exactly one
\* Location.
C29_SequentialRunsLeaveNoOrphan ==
    (BetweenOperations /\ ImagesAreUploads)
    => \A object \in store : Cardinality(ReferencesTo(object)) = 1

====
